---------------------------- MODULE Spec2Model ----------------------------
(***************************************************************************)
(* Shift booking of the Hammonia taxi planner: the shifts table with its   *)
(* CHECK constraints, row-level-security policies and the                  *)
(* check_shift_overlap trigger (supabase/*.sql), the availability RPCs,    *)
(* and the pre-flight validation of the admin shift dialog and the driver  *)
(* booking page; further the deletion of drivers and taxis, safeQuery and  *)
(* the AuthProvider's handling of auth events.                             *)
(*                                                                         *)
(* Time is counted in minutes from an epoch at local midnight of day 0; a  *)
(* calendar day has 1440 minutes (no daylight-saving change in the         *)
(* modelled window).  The database is modelled with every SQL script of    *)
(* the repository applied (schema.sql, rpc-functions-clean.sql,            *)
(* fix-rls-visibility.sql).                                                *)
(***************************************************************************)
EXTENDS Integers, FiniteSets, Sequences, TLC

VARIABLES
    shifts,     \* the committed rows of table shifts
    calc,       \* one run of the pages' interval computation: inputs and results
    client,     \* the browser sessions: page state and the progress of a booking
    now,        \* the wall clock (new Date(), isFuture), in minutes like the rows
    db,         \* the rows the shifts refer to: tables profiles, auth.users, taxis
    query,      \* one call of safeQuery: loop counter, last error, what it returned
    booking,    \* the booking page's inputs, its conflicts state and the
                \* checkConflicts calls that have not finished
    auth        \* AuthContext: user, session, profile and the fetchProfile
                \* calls that have not resolved

vars == <<shifts, calc, client, now, db, query, booking, auth>>

---------------------------------------------------------------------------
(* Bounds of the model *)

\* largest number of rows the table holds in the model
MaxShifts == 2
\* the instants used by direct statements are 0, SlotMinutes, ..., MaxSlot * SlotMinutes
MaxSlot == 3
\* the time pickers offer ClocksPerDay evenly spaced times of day
ClocksPerDay == 48
\* the date picker offers the days 0 .. MaxDate
MaxDate == 1
\* in the sessions the time pickers offer 0, UiClockStep, ..., MaxUiClock * UiClockStep
MaxUiClock == 2
\* largest number of rows the table holds while the clock is modelled
MaxClockShifts == 1
\* the largest options.retries passed to safeQuery
MaxRetries == 2
\* how many checkConflicts or fetchProfile calls are awaited at a time
MaxInFlight == 2

---------------------------------------------------------------------------
(* Program constants *)

\* CONSTRAINT max_shift_duration: EXTRACT(EPOCH FROM (end_time - start_time)) <= 36000
MaxShiftSeconds == 36000

SecondsPerMinute == 60
MinutesPerDay == 1440

\* distance between two instants of the model: half of the longest shift
SlotMinutes == (MaxShiftSeconds \div SecondsPerMinute) \div 2

Instants == {k * SlotMinutes : k \in 0..MaxSlot}

\* validateShift: if (duration > 10)
MaxShiftHours == 10

MinutesPerHour == 60

\* times of day, in minutes after midnight
Clocks == {k * (MinutesPerDay \div ClocksPerDay) : k \in 0..(ClocksPerDay - 1)}
Dates == 0..MaxDate

\* a third of 10h30m, so that the sessions can ask for 3h30m, 7h and 10h30m
UiClockStep == (MaxShiftHours * MinutesPerHour + MinutesPerHour \div 2) \div 3
UiClocks == {k * UiClockStep : k \in 0..MaxUiClock}

\* two browser sessions
Clients == {1, 2}

---------------------------------------------------------------------------
(* Reference entities: profiles and taxis *)

Drivers == {"d1", "d2"}
Admins == {"a1"}
\* every profile is an authenticated user
Profiles == Drivers \cup Admins
Taxis == {"t1", "t2"}
ShiftIds == 1..MaxShifts

\* profiles.is_admin
is_admin(uid) == uid \in Admins

\* every profile, its auth user and every taxi are in place (the seed data)
SeededDb == [profiles |-> Profiles, users |-> Profiles, taxis |-> Taxis]

NoShift == [id |-> 0, driver_id |-> "none", taxi_id |-> "none",
            start_time |-> 0, end_time |-> 0]

\* the column values a statement supplies for a row
Candidates == [driver_id : Drivers, taxi_id : Taxis,
               start_time : Instants, end_time : Instants]

Row(id, c) == [id |-> id, driver_id |-> c.driver_id, taxi_id |-> c.taxi_id,
               start_time |-> c.start_time, end_time |-> c.end_time]

---------------------------------------------------------------------------
(* The SQL OVERLAPS operator on two periods (s1, e1) and (s2, e2):         *)
(* each period is first ordered (its smaller end point is its start); a    *)
(* period is the half-open interval start <= t < end, except that an empty *)
(* period start = end stands for the single instant.                       *)

Earlier(a, b) == IF a <= b THEN a ELSE b
Later(a, b) == IF a <= b THEN b ELSE a

\* the test with both end points counted as part of a period
OverlapsClosed(ts1, te1, ts2, te2) ==
    ts1 <= te2 /\ ts2 <= te1

\* the test with its second comparison left out
OverlapsOneSided(ts1, te1, ts2, te2) ==
    ts1 < te2

OverlapsOrdered(ts1, te1, ts2, te2) ==
    IF ts1 > ts2 THEN ts1 < te2
    ELSE IF ts1 < ts2 THEN ts2 < te1
    ELSE TRUE

OVERLAPS(s1, e1, s2, e2) ==
    OverlapsOrdered(Earlier(s1, e1), Later(s1, e1), Earlier(s2, e2), Later(s2, e2))

---------------------------------------------------------------------------
(* Row-level security on table shifts *)

\* the policy of schema.sql before fix-rls-visibility.sql replaced it:
\* "Drivers see own shifts, admins see all"
DriversSeeOwnShifts(uid, rows) ==
    {r \in rows : r.driver_id = uid \/ is_admin(uid)}

\* FOR SELECT USING (auth.role() = 'authenticated'): the rows a query run on
\* behalf of uid sees.  Trigger and RPC functions are not SECURITY DEFINER,
\* so their queries are filtered by it too.
ShiftsVisible(uid, rows) ==
    {r \in rows : uid \in Profiles}

\* policies that let every authenticated user write every row
AnyAuthenticated(uid, r) ==
    uid \in Profiles

\* INSERT WITH CHECK, UPDATE USING (also its WITH CHECK) and DELETE USING:
\* driver_id = auth.uid() OR the caller is an admin
OwnOrAdmin(uid, r) ==
    r.driver_id = uid \/ is_admin(uid)

---------------------------------------------------------------------------
(* CHECK constraints of table shifts *)

valid_shift_times(r) == r.end_time > r.start_time

EpochSeconds(minutes) == minutes * SecondsPerMinute

max_shift_duration(r) ==
    EpochSeconds(r.end_time - r.start_time) <= MaxShiftSeconds

---------------------------------------------------------------------------
(* Trigger prevent_shift_overlap: BEFORE INSERT OR UPDATE FOR EACH ROW *)

\* the trigger without its second IF block (taxi conflicts only)
TaxiOnlyOverlapCheck(visible, new) ==
    IF \E r \in visible :
          /\ r.taxi_id = new.taxi_id
          /\ r.id # new.id
          /\ OVERLAPS(new.start_time, new.end_time, r.start_time, r.end_time)
    THEN "TaxiBooked"
    ELSE "ok"

\* the trigger without the id != NEW.id conjunct
NoSelfExclusionOverlapCheck(visible, new) ==
    IF \E r \in visible :
          /\ r.taxi_id = new.taxi_id
          /\ OVERLAPS(new.start_time, new.end_time, r.start_time, r.end_time)
    THEN "TaxiBooked"
    ELSE IF \E r \in visible :
          /\ r.driver_id = new.driver_id
          /\ OVERLAPS(new.start_time, new.end_time, r.start_time, r.end_time)
    THEN "DriverBooked"
    ELSE "ok"

\* the trigger raising the taxi message for either conflict
OverlapCheckOneMessage(visible, new) ==
    IF \E r \in visible :
          /\ (r.taxi_id = new.taxi_id \/ r.driver_id = new.driver_id)
          /\ r.id # new.id
          /\ OVERLAPS(new.start_time, new.end_time, r.start_time, r.end_time)
    THEN "TaxiBooked"
    ELSE "ok"

\* "TaxiBooked":   RAISE EXCEPTION 'Taxi is already booked for this time period'
\* "DriverBooked": RAISE EXCEPTION 'Driver already has a shift scheduled for
\*                 this time period'
\* "ok":           RETURN NEW
check_shift_overlap(visible, new) ==
    IF \E r \in visible :
          /\ r.taxi_id = new.taxi_id
          /\ r.id # new.id
          /\ OVERLAPS(new.start_time, new.end_time, r.start_time, r.end_time)
    THEN "TaxiBooked"
    ELSE IF \E r \in visible :
          /\ r.driver_id = new.driver_id
          /\ r.id # new.id
          /\ OVERLAPS(new.start_time, new.end_time, r.start_time, r.end_time)
    THEN "DriverBooked"
    ELSE "ok"

\* what the database answers to the write of row new on behalf of uid, the
\* table holding rows: the BEFORE ROW trigger runs first, then the policy's
\* WITH CHECK, then the CHECK constraints
WriteVerdictNoChecks(uid, rows, new) ==
    LET t == check_shift_overlap(ShiftsVisible(uid, rows), new)
    IN  IF t # "ok" THEN t
        ELSE IF ~OwnOrAdmin(uid, new) THEN "RlsViolation"
        ELSE "ok"

WriteVerdict(uid, rows, new) ==
    LET t == check_shift_overlap(ShiftsVisible(uid, rows), new)
    IN  IF t # "ok" THEN t
        ELSE IF ~OwnOrAdmin(uid, new) THEN "RlsViolation"
        ELSE IF ~max_shift_duration(new) THEN "DurationExceeded"
        ELSE IF ~valid_shift_times(new) THEN "InvalidInterval"
        ELSE "ok"

---------------------------------------------------------------------------
(* Availability RPCs (pre-flight probes); exclude = 0 stands for NULL *)

\* the driver probe counting a shift that only touches the window
DriverAvailabilityClosed(uid, rows, p_driver_id, p_start_time, p_end_time, p_exclude_shift_id) ==
    ~ \E r \in ShiftsVisible(uid, rows) :
          /\ r.driver_id = p_driver_id
          /\ (p_exclude_shift_id = 0 \/ r.id # p_exclude_shift_id)
          /\ OverlapsClosed(p_start_time, p_end_time, r.start_time, r.end_time)

check_driver_availability(uid, rows, p_driver_id, p_start_time, p_end_time, p_exclude_shift_id) ==
    ~ \E r \in ShiftsVisible(uid, rows) :
          /\ r.driver_id = p_driver_id
          /\ (p_exclude_shift_id = 0 \/ r.id # p_exclude_shift_id)
          /\ OVERLAPS(p_start_time, p_end_time, r.start_time, r.end_time)

\* the probe with the condition written id != p_exclude_shift_id alone: with
\* a NULL exclude id no row qualifies
TaxiAvailabilityNullExclude(uid, rows, p_taxi_id, p_start_time, p_end_time, p_exclude_shift_id) ==
    ~ \E r \in ShiftsVisible(uid, rows) :
          /\ r.taxi_id = p_taxi_id
          /\ p_exclude_shift_id # 0
          /\ r.id # p_exclude_shift_id
          /\ OVERLAPS(p_start_time, p_end_time, r.start_time, r.end_time)

check_taxi_availability(uid, rows, p_taxi_id, p_start_time, p_end_time, p_exclude_shift_id) ==
    ~ \E r \in ShiftsVisible(uid, rows) :
          /\ r.taxi_id = p_taxi_id
          /\ (p_exclude_shift_id = 0 \/ r.id # p_exclude_shift_id)
          /\ OVERLAPS(p_start_time, p_end_time, r.start_time, r.end_time)

\* the conflict query of the admin dialog's validateShift:
\* .eq('taxi_id', ..).neq('id', currentShift.id || '')
\* .or(and(start_time.lt.shiftEnd, end_time.gt.shiftStart))
AdminConflictQuery(uid, rows, taxi_id, shiftStart, shiftEnd, currentId) ==
    {r \in ShiftsVisible(uid, rows) :
        /\ r.taxi_id = taxi_id
        /\ r.id # currentId
        /\ r.start_time < shiftEnd
        /\ r.end_time > shiftStart}

---------------------------------------------------------------------------
(* Interval computation of validateShift, checkConflicts, handleSubmit and *)
(* handleSaveShift                                                         *)

\* new Date(date).setHours(clock.getHours(), clock.getMinutes(), 0, 0)
AtClock(date, clock) == date * MinutesPerDay + clock

\* the rollover written with < instead of <=
NormalizeStrictRollover(date, startClock, endClock) ==
    LET shiftStart == AtClock(date, startClock)
        shiftEnd == AtClock(date, endClock)
    IN  [start_time |-> shiftStart,
         end_time |-> IF shiftEnd < shiftStart
                      THEN AtClock(date + 1, endClock)
                      ELSE shiftEnd]

\* if (shiftEnd <= shiftStart) shiftEnd.setDate(shiftEnd.getDate() + 1)
NormalizeInterval(date, startClock, endClock) ==
    LET shiftStart == AtClock(date, startClock)
        shiftEnd == AtClock(date, endClock)
    IN  [start_time |-> shiftStart,
         end_time |-> IF shiftEnd <= shiftStart
                      THEN AtClock(date + 1, endClock)
                      ELSE shiftEnd]

\* date-fns differenceInHours(later, earlier): the whole hours between the two
\* instants, fractions dropped (rounded towards zero)
differenceInHours(later, earlier) ==
    IF later >= earlier
    THEN (later - earlier) \div MinutesPerHour
    ELSE -((earlier - later) \div MinutesPerHour)

\* a duration step that refuses nothing
DurationStepNoLimit(w) ==
    differenceInHours(w.end_time, w.start_time) >= 0

\* const duration = differenceInHours(shiftEnd, shiftStart);
\* if (duration > 10) { setValidationError(t('shifts.maxDuration')); return false; }
DurationStepPasses(w) ==
    ~(differenceInHours(w.end_time, w.start_time) > MaxShiftHours)

---------------------------------------------------------------------------
(* Statements on table shifts.  Each is a function of the caller, the      *)
(* committed rows and the values supplied, giving the rows afterwards and  *)
(* the answer to the caller.                                               *)

UnusedIds(rows) == {i \in ShiftIds : \A r \in rows : r.id # i}

\* DEFAULT uuid_generate_v4(): an id no row carries
FreshId(rows) == CHOOSE i \in UnusedIds(rows) : \A j \in UnusedIds(rows) : i <= j

\* INSERT INTO shifts (driver_id, taxi_id, start_time, end_time) VALUES c
InsertEffect(uid, rows, c) ==
    LET new == Row(FreshId(rows), c)
        v == WriteVerdict(uid, rows, new)
    IN  [rows |-> IF v = "ok" THEN rows \cup {new} ELSE rows, result |-> v]

\* an update that writes the new values although the statement was refused
UpdateKeepsRefusedRow(uid, rows, id, c) ==
    LET target == {r \in rows : r.id = id /\ OwnOrAdmin(uid, r)}
    IN  IF target = {} THEN [rows |-> rows, result |-> "NoRow"]
        ELSE [rows |-> (rows \ target) \cup {Row(id, c)},
              result |-> WriteVerdict(uid, rows, Row(id, c))]

\* UPDATE shifts SET driver_id, taxi_id, start_time, end_time = c WHERE id = id
\* (a row the UPDATE policy's USING hides is not updated: no row, no error)
UpdateEffect(uid, rows, id, c) ==
    LET target == {r \in rows : r.id = id /\ OwnOrAdmin(uid, r)}
        new == Row(id, c)
        v == WriteVerdict(uid, rows, new)
    IN  IF target = {} THEN [rows |-> rows, result |-> "NoRow"]
        ELSE [rows |-> IF v = "ok" THEN (rows \ target) \cup {new} ELSE rows,
              result |-> v]

\* a delete that takes only shifts that have not started
DeleteWhileUpcoming(uid, rows, id) ==
    LET target == {r \in rows : r.id = id /\ OwnOrAdmin(uid, r) /\ r.start_time > now}
    IN  IF target = {} THEN [rows |-> rows, result |-> "NoRow"]
        ELSE [rows |-> rows \ target, result |-> "ok"]

\* DELETE FROM shifts WHERE id = id
DeleteEffect(uid, rows, id) ==
    LET target == {r \in rows : r.id = id /\ OwnOrAdmin(uid, r)}
    IN  IF target = {} THEN [rows |-> rows, result |-> "NoRow"]
        ELSE [rows |-> rows \ target, result |-> "ok"]

---------------------------------------------------------------------------
(* Spec: statements run one at a time against the table *)

\* what a query resolves with: the error's code, and whether it is an auth
\* error (its message holds 'JWT' or 'token', or its status is 401)
NoError == [code |-> "null", auth |-> FALSE]
ErrorCodes == {"PGRST116", "23505", "23503", "other"}
QueryErrors == [code : ErrorCodes, auth : BOOLEAN]

\* no safeQuery call is running
IdleQuery == [pc |-> "idle", maxRetries |-> 0, i |-> 0, lastError |-> NoError,
              attempts |-> 0, calls |-> 0, first |-> NoError, refresh |-> "none",
              someOk |-> FALSE, error |-> NoError, success |-> FALSE]

\* the booking page is not open: nothing selected, conflicts = []
ClosedBooking == [user |-> "none", selectedTaxi |-> "none",
                  startTime |-> 0, endTime |-> 0,
                  conflicts |-> FALSE, calls |-> {}]

\* useState(null) of user, session and profile; no fetchProfile is awaited
SignedOut == [user |-> "none", session |-> "none", profile |-> "none",
              fetching |-> [u \in Profiles |-> 0], signingOut |-> FALSE]

NoCalc == [stage |-> "none", date |-> 0, startClock |-> 0, endClock |-> 0,
           start_time |-> 0, end_time |-> 0, passes |-> FALSE]

\* a session that has no form open
IdleClient == [pc |-> "idle", user |-> "none", page |-> "none",
               currentShift |-> NoShift,
               driver_id |-> "none", taxi_id |-> "none",
               start_time |-> 0, end_time |-> 0,
               taxiAvailable |-> TRUE, driverAvailable |-> TRUE,
               validationError |-> "", new |-> NoShift, result |-> "none"]

Init ==
    /\ shifts = {}
    /\ calc = NoCalc
    /\ client = [c \in Clients |-> IdleClient]
    /\ now = 0
    /\ db = SeededDb
    /\ query = IdleQuery
    /\ booking = ClosedBooking
    /\ auth = SignedOut

InsertShift(uid, c) ==
    /\ Cardinality(shifts) < MaxShifts
    /\ shifts' = InsertEffect(uid, shifts, c).rows
    /\ UNCHANGED <<calc, client, now, db, query, booking, auth>>

UpdateShift(uid, id, c) ==
    /\ shifts' = UpdateEffect(uid, shifts, id, c).rows
    /\ UNCHANGED <<calc, client, now, db, query, booking, auth>>

DeleteShift(uid, id) ==
    /\ shifts' = DeleteEffect(uid, shifts, id).rows
    /\ UNCHANGED <<calc, client, now, db, query, booking, auth>>

Insert == \E uid \in Profiles, c \in Candidates : InsertShift(uid, c)
Update == \E uid \in Profiles, id \in ShiftIds, c \in Candidates : UpdateShift(uid, id, c)
Delete == \E uid \in Profiles, id \in ShiftIds : DeleteShift(uid, id)

Next == Insert \/ Update \/ Delete

Spec == Init /\ [][Next]_vars

---------------------------------------------------------------------------
(* Properties of the table under Spec *)

\* the glossary's overlap of [s1, e1) and [s2, e2)
IntervalsOverlap(r1, r2) ==
    r1.start_time < r2.end_time /\ r2.start_time < r1.end_time

Touching(r1, r2) ==
    r1.end_time = r2.start_time \/ r2.end_time = r1.start_time

DurationSeconds(r) == EpochSeconds(r.end_time - r.start_time)

ProperWindow(c) == c.end_time > c.start_time

CanInsert == Cardinality(shifts) < MaxShifts

\* C1: whatever statements ran, one at a time, no two distinct committed
\* shifts of the same taxi have overlapping [start_time, end_time) intervals.
C1_NoTaxiOverlap ==
    \A r1 \in shifts : \A r2 \in shifts :
        (r1.id # r2.id /\ r1.taxi_id = r2.taxi_id) => ~IntervalsOverlap(r1, r2)

\* two shifts of two drivers on one taxi are committed
C1_Witness ==
    \E r1 \in shifts : \E r2 \in shifts :
        r1.id # r2.id /\ r1.taxi_id = r2.taxi_id /\ r1.driver_id # r2.driver_id

\* C2: whatever statements ran, one at a time, no two distinct committed
\* shifts of the same driver overlap in time, on the same taxi or on two taxis.
C2_NoDriverOverlap ==
    \A r1 \in shifts : \A r2 \in shifts :
        (r1.id # r2.id /\ r1.driver_id = r2.driver_id) => ~IntervalsOverlap(r1, r2)

\* one driver holds committed shifts on two different taxis
C2_Witness ==
    \E r1 \in shifts : \E r2 \in shifts :
        r1.id # r2.id /\ r1.driver_id = r2.driver_id /\ r1.taxi_id # r2.taxi_id

\* C5: every committed shift ends strictly after it starts and lasts at most
\* 36000 seconds, and an insert or update whose window breaks either bound is
\* refused and leaves the table as it was.
C5_WindowBounds ==
    /\ \A r \in shifts :
          r.end_time > r.start_time /\ DurationSeconds(r) <= MaxShiftSeconds
    /\ \A uid \in Profiles : \A c \in Candidates :
          (~ProperWindow(c) \/ DurationSeconds(c) > MaxShiftSeconds) =>
              /\ CanInsert =>
                    /\ InsertEffect(uid, shifts, c).result # "ok"
                    /\ InsertEffect(uid, shifts, c).rows = shifts
              /\ \A id \in ShiftIds :
                    /\ UpdateEffect(uid, shifts, id, c).result # "ok"
                    /\ UpdateEffect(uid, shifts, id, c).rows = shifts

\* a shift of exactly 36000 seconds is committed, and the table refuses a
\* longer one and one that does not end after its start
C5_Witness ==
    /\ \E r \in shifts : DurationSeconds(r) = MaxShiftSeconds
    /\ CanInsert
    /\ \E c \in Candidates : InsertEffect("a1", shifts, c).result = "DurationExceeded"
    /\ \E c \in Candidates : InsertEffect("a1", shifts, c).result = "InvalidInterval"

\* the probes and the trigger on a table that holds the single row r
NoConflictReported(r, c) ==
    /\ check_taxi_availability("a1", {r}, c.taxi_id, c.start_time, c.end_time, 0)
    /\ check_driver_availability("a1", {r}, c.driver_id, c.start_time, c.end_time, 0)
    /\ AdminConflictQuery("a1", {r}, c.taxi_id, c.start_time, c.end_time, 0) = {}
    /\ check_shift_overlap(ShiftsVisible("a1", {r}), Row(0, c)) = "ok"

\* C8: a shift that ends exactly when another shift of the same taxi or the
\* same driver starts is reported as a conflict neither by the availability
\* probes, nor by the admin dialog's conflict query, nor by the trigger.
C8_TouchingIsNoConflict ==
    \A r \in shifts : \A c \in Candidates :
        ( /\ ProperWindow(c)
          /\ (c.taxi_id = r.taxi_id \/ c.driver_id = r.driver_id)
          /\ Touching(r, c) )
        => NoConflictReported(r, c)

\* two shifts of one driver on one taxi, the second starting at the instant
\* the first ends, are both committed
C8_Witness ==
    \E r1 \in shifts : \E r2 \in shifts :
        /\ r1.taxi_id = r2.taxi_id
        /\ r1.driver_id = r2.driver_id
        /\ r1.end_time = r2.start_time

\* C9: for a committed shift B and a shift A with a proper window, the trigger's
\* answer to writing A into a table that holds B is its answer to writing B
\* into a table that holds A.
C9_OverlapSymmetric ==
    \A r \in shifts : \A c \in Candidates :
        ProperWindow(c) =>
            check_shift_overlap({r}, Row(0, c))
                = check_shift_overlap({Row(0, c)}, r)

\* a committed shift and a shift of the same taxi that overlaps it without
\* having the same window: each is refused after the other
C9_Witness ==
    \E r \in shifts : \E c \in Candidates :
        /\ ProperWindow(c)
        /\ c.taxi_id = r.taxi_id
        /\ c.start_time < r.start_time
        /\ c.end_time < r.end_time
        /\ check_shift_overlap({r}, Row(0, c)) = "TaxiBooked"
        /\ check_shift_overlap({Row(0, c)}, r) = "TaxiBooked"

\* the committed shifts, other than the one with id id, that overlap c's
\* window on c's taxi, and those that overlap it for c's driver
TaxiConflicts(rows, id, c) ==
    {r \in rows : r.id # id /\ r.taxi_id = c.taxi_id /\ IntervalsOverlap(r, c)}

DriverConflicts(rows, id, c) ==
    {r \in rows : r.id # id /\ r.driver_id = c.driver_id /\ IntervalsOverlap(r, c)}

\* C11: an insert or update whose window overlaps a committed shift of its
\* driver while its taxi is free in that window is refused with the
\* driver-booked error, one that overlaps a committed shift of its taxi only
\* is refused with the taxi-booked error, and either leaves the table as it was.
C11_DriverConflictError ==
    \A uid \in Profiles : \A c \in Candidates :
        ProperWindow(c) =>
            /\ CanInsert =>
                  LET e == InsertEffect(uid, shifts, c)
                  IN  /\ (DriverConflicts(shifts, 0, c) # {} /\ TaxiConflicts(shifts, 0, c) = {})
                            => (e.result = "DriverBooked" /\ e.rows = shifts)
                      /\ (TaxiConflicts(shifts, 0, c) # {} /\ DriverConflicts(shifts, 0, c) = {})
                            => (e.result = "TaxiBooked" /\ e.rows = shifts)
            /\ \A id \in ShiftIds :
                  LET e == UpdateEffect(uid, shifts, id, c)
                  IN  e.result # "NoRow" =>
                      /\ (DriverConflicts(shifts, id, c) # {} /\ TaxiConflicts(shifts, id, c) = {})
                            => (e.result = "DriverBooked" /\ e.rows = shifts)
                      /\ (TaxiConflicts(shifts, id, c) # {} /\ DriverConflicts(shifts, id, c) = {})
                            => (e.result = "TaxiBooked" /\ e.rows = shifts)

\* a driver has a shift on one taxi, and the insert of an overlapping shift of
\* that driver on the other, free taxi is refused with the driver-booked error
C11_Witness ==
    /\ CanInsert
    /\ \E r \in shifts : \E c \in Candidates :
          /\ ProperWindow(c)
          /\ c.driver_id = r.driver_id
          /\ c.taxi_id # r.taxi_id
          /\ IntervalsOverlap(r, c)
          /\ TaxiConflicts(shifts, 0, c) = {}
          /\ InsertEffect(r.driver_id, shifts, c).result = "DriverBooked"
          /\ InsertEffect(r.driver_id, shifts, c).rows = shifts

\* the one reason the claimed order gives for the write of c, the row with
\* id id aside: invalid interval, then duration exceeded, then driver
\* conflict, then taxi conflict (a candidate of the model has every field)
FirstReasonInOrder(rows, id, c) ==
    IF ~ProperWindow(c) THEN "InvalidInterval"
    ELSE IF DurationSeconds(c) > MaxShiftSeconds THEN "DurationExceeded"
    ELSE IF DriverConflicts(rows, id, c) # {} THEN "DriverBooked"
    ELSE IF TaxiConflicts(rows, id, c) # {} THEN "TaxiBooked"
    ELSE "ok"

\* C12 as claimed: the answer to a write is the first applicable reason in
\* the order invalid interval, duration exceeded, driver conflict, taxi
\* conflict; a candidate with both conflicts is refused with the driver
\* conflict, one that is too long and conflicts with duration exceeded.
C12_RejectionPriority ==
    \A c \in Candidates :
        /\ CanInsert =>
              InsertEffect("a1", shifts, c).result = FirstReasonInOrder(shifts, 0, c)
        /\ \A id \in ShiftIds :
              UpdateEffect("a1", shifts, id, c).result
                  \in {"NoRow", FirstReasonInOrder(shifts, id, c)}

\* the rows a statement took out of the table or put into it
RowsChanged(before, after) == (before \ after) \cup (after \ before)

\* C17: every insert, update or delete by a caller who is not an admin that
\* takes effect concerns rows whose driver_id is the caller's id, before and
\* after (no shift created for, reassigned to, taken from or deleted for
\* another driver); an admin's statements are never refused by the policies.
C17_DriversWriteOwnShiftsOnly ==
    /\ \A uid \in Drivers : \A c \in Candidates :
          /\ CanInsert =>
                \A r \in RowsChanged(shifts, InsertEffect(uid, shifts, c).rows) :
                    r.driver_id = uid
          /\ \A id \in ShiftIds :
                /\ \A r \in RowsChanged(shifts, UpdateEffect(uid, shifts, id, c).rows) :
                      r.driver_id = uid
                /\ \A r \in RowsChanged(shifts, DeleteEffect(uid, shifts, id).rows) :
                      r.driver_id = uid
    /\ \A uid \in Admins : \A c \in Candidates :
          /\ CanInsert => InsertEffect(uid, shifts, c).result # "RlsViolation"
          /\ \A S \in shifts :
                /\ UpdateEffect(uid, shifts, S.id, c).result \notin {"RlsViolation", "NoRow"}
                /\ DeleteEffect(uid, shifts, S.id).rows = shifts \ {S}

\* a driver's update of an own shift takes effect, while the same driver can
\* neither hand that shift to the other driver, nor change or delete the
\* other driver's shift, nor insert a shift for the other driver
C17_Witness ==
    /\ CanInsert
    /\ \E own \in shifts : \E c \in Candidates :
          LET uid == own.driver_id
          IN  /\ UpdateEffect(uid, shifts, own.id, c).result = "ok"
              /\ UpdateEffect(uid, shifts, own.id, c).rows # shifts
              /\ \E c2 \in Candidates :
                    /\ c2.driver_id # uid
                    /\ UpdateEffect(uid, shifts, own.id, c2).result = "RlsViolation"
                    /\ InsertEffect(uid, shifts, c2).result = "RlsViolation"
    /\ \E S \in shifts : \E uid \in Drivers : \E c \in Candidates :
          /\ S.driver_id # uid
          /\ UpdateEffect(uid, shifts, S.id, c).result = "NoRow"
          /\ DeleteEffect(uid, shifts, S.id).result = "NoRow"

\* C18 as claimed: a read of table shifts on behalf of a driver returns only
\* shifts whose driver_id is that driver's id.
C18_DriversReadOwnOnly ==
    \A uid \in Drivers : \A r \in ShiftsVisible(uid, shifts) : r.driver_id = uid

\* C30: an update of a committed shift S that the commit-time guard refuses
\* (a taxi or driver overlap, the duration or ordering CHECK, the policy)
\* leaves S with the values it had and every other shift as it was.
C30_RefusedUpdateChangesNothing ==
    \A S \in shifts : \A uid \in Profiles : \A c \in Candidates :
        LET e == UpdateEffect(uid, shifts, S.id, c)
        IN  e.result # "ok" =>
                /\ e.rows = shifts
                /\ \E r \in e.rows : r = S

\* an admin moves S onto the taxi and into the window of another shift, and
\* the update is refused as a taxi conflict
C30_Witness ==
    \E S \in shifts : \E c \in Candidates :
        /\ Row(S.id, c) # S
        /\ \E r \in shifts : r.id # S.id /\ r.taxi_id = c.taxi_id
        /\ UpdateEffect("a1", shifts, S.id, c).result = "TaxiBooked"
        /\ UpdateEffect("a1", shifts, S.id, c).rows = shifts

---------------------------------------------------------------------------
(* SpecForm: the interval computation and the duration step of             *)
(* validateShift, run on every date and pair of picker times               *)

InitForm ==
    /\ shifts = {}
    /\ client = [c \in Clients |-> IdleClient]
    /\ now = 0
    /\ db = SeededDb
    /\ query = IdleQuery
    /\ booking = ClosedBooking
    /\ auth = SignedOut
    /\ \E d \in Dates, sc \in Clocks, ec \in Clocks :
          calc = [stage |-> "input", date |-> d, startClock |-> sc, endClock |-> ec,
                  start_time |-> 0, end_time |-> 0, passes |-> FALSE]

\* shiftStart and shiftEnd built from the pickers
Normalize ==
    /\ calc.stage = "input"
    /\ LET w == NormalizeInterval(calc.date, calc.startClock, calc.endClock)
       IN  calc' = [calc EXCEPT !.stage = "normalized",
                                !.start_time = w.start_time,
                                !.end_time = w.end_time]
    /\ UNCHANGED <<shifts, client, now, db, query, booking, auth>>

\* the duration step of validateShift
CheckDuration ==
    /\ calc.stage = "normalized"
    /\ calc' = [calc EXCEPT !.stage = "checked",
                            !.passes = DurationStepPasses(calc)]
    /\ UNCHANGED <<shifts, client, now, db, query, booking, auth>>

NextForm == Normalize \/ CheckDuration

SpecForm == InitForm /\ [][NextForm]_vars

\* C6 as claimed: the duration step passes a normalized candidate exactly when
\* end - start is at most 10 hours (exactly 10 hours passes; 10h01m and more,
\* up to 10h59m included, is refused).
C6_DurationStepExact ==
    calc.stage = "checked" =>
        (calc.passes <=>
            calc.end_time - calc.start_time <= MaxShiftHours * MinutesPerHour)

\* C7: the computed start is the date at the start time; the computed end is
\* the date at the end time when that is strictly later than the start, and
\* otherwise exactly one calendar day after it; the end is always strictly
\* after the start.
C7_NormalizeInterval ==
    calc.stage # "input" /\ calc.stage # "none" =>
        LET sameDayEnd == calc.date * MinutesPerDay + calc.endClock
        IN  /\ calc.start_time = calc.date * MinutesPerDay + calc.startClock
            /\ calc.end_time = IF sameDayEnd > calc.start_time
                               THEN sameDayEnd
                               ELSE sameDayEnd + MinutesPerDay
            /\ calc.end_time > calc.start_time

\* start 22:00 and end 06:00 give an 8-hour shift that ends at 06:00 of the
\* next day and passes the duration step
C7_Witness ==
    /\ calc.stage = "checked"
    /\ calc.startClock = 22 * MinutesPerHour
    /\ calc.endClock = 6 * MinutesPerHour
    /\ calc.end_time = (calc.date + 1) * MinutesPerDay + 6 * MinutesPerHour
    /\ calc.end_time - calc.start_time = 8 * MinutesPerHour
    /\ calc.passes

\* the database's answer to an admin's insert of the computed window into an
\* empty table
CalcWriteVerdict ==
    WriteVerdict("a1", {}, [id |-> 1, driver_id |-> "d1", taxi_id |-> "t1",
                            start_time |-> calc.start_time, end_time |-> calc.end_time])

\* C22: a window computed from the pickers is never an invalid interval: its
\* end is after its start, the duration step either passes it or refuses it
\* as too long, the table's constraints answer "ok" or duration exceeded, and
\* equal start and end times of day give a 24-hour window, which the duration
\* step and the table both refuse as too long.
C22_NormalizedNeverInvalid ==
    calc.stage = "checked" =>
        /\ valid_shift_times(calc)
        /\ CalcWriteVerdict \in {"ok", "DurationExceeded"}
        /\ calc.startClock = calc.endClock =>
              /\ calc.end_time - calc.start_time = MinutesPerDay
              /\ ~calc.passes
              /\ CalcWriteVerdict = "DurationExceeded"

\* start and end both 08:00: a 24-hour window, refused by the duration step
C22_Witness ==
    /\ calc.stage = "checked"
    /\ calc.startClock = 8 * MinutesPerHour
    /\ calc.endClock = 8 * MinutesPerHour
    /\ calc.end_time - calc.start_time = 24 * MinutesPerHour
    /\ ~calc.passes

---------------------------------------------------------------------------
(* SpecUI: two browser sessions, each booking or editing one shift through  *)
(* the driver booking page or the admin shift dialog.  A write is a         *)
(* transaction of its own (READ COMMITTED): its trigger and constraints     *)
(* read the committed rows, and its row is seen by others once it commits.  *)

\* the row a session's form stands for
FormRow(cl) == [id |-> cl.currentShift.id, driver_id |-> cl.driver_id,
                taxi_id |-> cl.taxi_id,
                start_time |-> cl.start_time, end_time |-> cl.end_time]

\* driver booking page: the driver picks the taxi, the date and the times
\* (selectedDate is day 0); the effect then starts checkConflicts
OpenBooking(c, uid, taxi, startClock, endClock) ==
    /\ client[c].pc = "idle"
    /\ ~is_admin(uid)
    /\ LET w == NormalizeInterval(0, startClock, endClock)
       IN  client' = [client EXCEPT ![c] =
              [IdleClient EXCEPT !.pc = "filled", !.user = uid, !.page = "driver",
                                 !.driver_id = uid, !.taxi_id = taxi,
                                 !.start_time = w.start_time,
                                 !.end_time = w.end_time]]
    /\ UNCHANGED <<shifts, calc, now, db, query, booking, auth>>

\* checkConflicts: await rpc('check_taxi_availability')
CheckConflictsTaxi(c) ==
    /\ client[c].pc = "filled"
    /\ client[c].page = "driver"
    /\ client' = [client EXCEPT ![c].pc = "taxiProbed",
                                ![c].taxiAvailable =
                                    check_taxi_availability(client[c].user, shifts,
                                        client[c].taxi_id, client[c].start_time,
                                        client[c].end_time, 0)]
    /\ UNCHANGED <<shifts, calc, now, db, query, booking, auth>>

\* checkConflicts: await rpc('check_driver_availability'), then
\* setConflicts(conflictDates) and, on a driver conflict, setValidationError
CheckConflictsDriver(c) ==
    /\ client[c].pc = "taxiProbed"
    /\ LET avail == check_driver_availability(client[c].user, shifts,
                        client[c].user, client[c].start_time, client[c].end_time, 0)
       IN  client' = [client EXCEPT ![c].pc = "probed",
                                    ![c].driverAvailable = avail,
                                    ![c].validationError =
                                        IF avail THEN client[c].validationError
                                        ELSE "driverConflict"]
    /\ UNCHANGED <<shifts, calc, now, db, query, booking, auth>>

\* the conflicts state of the booking page: filled by setConflicts when
\* checkConflicts has finished, empty before
ConflictsListed(cl) == cl.pc = "probed" /\ ~cl.taxiAvailable

\* handleSubmit of the booking page: validateShift, then the insert is sent
HandleSubmit(c) ==
    /\ client[c].pc \in {"filled", "taxiProbed", "probed"}
    /\ client[c].page = "driver"
    /\ client' = [client EXCEPT ![c] =
          IF ~DurationStepPasses(client[c])
          THEN [client[c] EXCEPT !.pc = "invalid", !.validationError = "maxDuration"]
          ELSE IF ConflictsListed(client[c])
          THEN [client[c] EXCEPT !.pc = "invalid", !.validationError = "conflictError"]
          ELSE [client[c] EXCEPT !.pc = "sent", !.validationError = "",
                                 !.new = [FormRow(client[c]) EXCEPT !.id = c]]]
    /\ UNCHANGED <<shifts, calc, now, db, query, booking, auth>>

\* admin shift dialog: handleOpenDialog(shift) for a listed shift, or
\* handleOpenDialog() for a new one, and the admin's choice of driver, taxi
\* and times (selectedDate is day 0)
OpenDialog(c, uid, shift, driver, taxi, startClock, endClock) ==
    /\ client[c].pc = "idle"
    /\ is_admin(uid)
    /\ shift \in shifts \cup {NoShift}
    /\ LET w == NormalizeInterval(0, startClock, endClock)
       IN  client' = [client EXCEPT ![c] =
              [IdleClient EXCEPT !.pc = "filled", !.user = uid, !.page = "admin",
                                 !.currentShift = shift,
                                 !.driver_id = driver, !.taxi_id = taxi,
                                 !.start_time = w.start_time,
                                 !.end_time = w.end_time]]
    /\ UNCHANGED <<shifts, calc, now, db, query, booking, auth>>

\* handleSaveShift of the admin dialog, up to the write: await validateShift()
\* with its conflict query, then the update or the insert is sent
HandleSaveShift(c) ==
    /\ client[c].pc = "filled"
    /\ client[c].page = "admin"
    /\ LET cl == client[c]
           conflicts == AdminConflictQuery(cl.user, shifts, cl.taxi_id,
                            cl.start_time, cl.end_time, cl.currentShift.id)
       IN  client' = [client EXCEPT ![c] =
              IF ~DurationStepPasses(cl)
              THEN [cl EXCEPT !.pc = "invalid", !.validationError = "maxDuration"]
              ELSE IF conflicts # {}
              THEN [cl EXCEPT !.pc = "invalid", !.validationError = "conflictError"]
              ELSE [cl EXCEPT !.pc = "sent", !.validationError = "",
                              !.new = IF cl.currentShift.id # 0
                                      THEN FormRow(cl)
                                      ELSE [FormRow(cl) EXCEPT !.id = c]]]
    /\ UNCHANGED <<shifts, calc, now, db, query, booking, auth>>

IsUpdate(cl) == cl.currentShift.id # 0

\* another session's uncommitted update holds the lock of the row
RowLockedByOther(c) ==
    \E o \in Clients \ {c} :
        /\ client[o].pc = "written"
        /\ IsUpdate(client[o])
        /\ client[o].new.id = client[c].new.id

\* a client that takes the statement as written whatever the database answered
RunStatementIgnoringError(c) ==
    /\ client[c].pc = "sent"
    /\ client' = [client EXCEPT
          ![c].pc = "written",
          ![c].result = WriteVerdict(client[c].user, shifts, client[c].new)]
    /\ UNCHANGED <<shifts, calc, now, db, query, booking, auth>>

\* the statement runs in the database: the row to update is looked up, then
\* trigger, policy and constraints decide on the row; an error ends the
\* transaction and is shown (enqueueSnackbar(error.message))
RunStatement(c) ==
    /\ client[c].pc = "sent"
    /\ LET cl == client[c]
           target == {r \in shifts : r.id = cl.new.id /\ OwnOrAdmin(cl.user, r)}
           v == WriteVerdict(cl.user, shifts, cl.new)
       IN  IF IsUpdate(cl) /\ target = {}
           THEN client' = [client EXCEPT ![c].pc = "done", ![c].result = "NoRow"]
           ELSE /\ IsUpdate(cl) => ~RowLockedByOther(c)
                /\ client' = [client EXCEPT
                      ![c].pc = IF v = "ok" THEN "written" ELSE "failed",
                      ![c].result = v]
    /\ UNCHANGED <<shifts, calc, now, db, query, booking, auth>>

\* the transaction commits: the row is now among the committed rows, and the
\* page reports success
Commit(c) ==
    /\ client[c].pc = "written"
    /\ shifts' = {r \in shifts : r.id # client[c].new.id} \cup {client[c].new}
    /\ client' = [client EXCEPT ![c].pc = "done"]
    /\ UNCHANGED <<calc, now, db, query, booking, auth>>

\* a shift committed before the sessions start
EarlierShift == [id |-> Cardinality(Clients) + 1, driver_id |-> "d1", taxi_id |-> "t1",
                 start_time |-> UiClockStep, end_time |-> 2 * UiClockStep]

\* the table is empty or holds one shift when the sessions start
InitUI ==
    /\ shifts \in {{}, {EarlierShift}}
    /\ calc = NoCalc
    /\ client = [c \in Clients |-> IdleClient]
    /\ now = 0
    /\ db = SeededDb
    /\ query = IdleQuery
    /\ booking = ClosedBooking
    /\ auth = SignedOut

NextUI ==
    \/ \E c \in Clients, uid \in Profiles, taxi \in Taxis,
          sc \in UiClocks, ec \in UiClocks : OpenBooking(c, uid, taxi, sc, ec)
    \/ \E c \in Clients, uid \in Profiles, shift \in shifts \cup {NoShift},
          driver \in Drivers, taxi \in Taxis,
          sc \in UiClocks, ec \in UiClocks :
              OpenDialog(c, uid, shift, driver, taxi, sc, ec)
    \/ \E c \in Clients : CheckConflictsTaxi(c)
    \/ \E c \in Clients : CheckConflictsDriver(c)
    \/ \E c \in Clients : HandleSubmit(c)
    \/ \E c \in Clients : HandleSaveShift(c)
    \/ \E c \in Clients : RunStatement(c)
    \/ \E c \in Clients : Commit(c)

SpecUI == InitUI /\ [][NextUI]_vars

---------------------------------------------------------------------------
(* Properties of the sessions under SpecUI *)

\* two rows that may not both be committed
Conflicting(r1, r2) ==
    /\ r1.id # r2.id
    /\ (r1.taxi_id = r2.taxi_id \/ r1.driver_id = r2.driver_id)
    /\ IntervalsOverlap(r1, r2)

\* the session's write is over: committed, or refused by the database
Finished(cl) == cl.pc \in {"done", "failed"}

Committed(cl) == cl.pc = "done" /\ cl.result = "ok"

RefusedAsConflict(cl) ==
    cl.pc = "failed" /\ cl.result \in {"TaxiBooked", "DriverBooked"}

\* the write would be accepted if the other session's write were absent
AcceptableAlone(cl, other) ==
    WriteVerdict(cl.user, {r \in shifts : r.id # other.new.id}, cl.new) = "ok"

\* C3 as claimed: of two writes for the same taxi or the same driver with
\* overlapping windows, exactly one commits and the other is refused with the
\* conflict error, however their trigger checks and commits interleave.
C3_ExactlyOneCommits ==
    \A c1 \in Clients : \A c2 \in Clients \ {c1} :
        ( /\ Finished(client[c1])
          /\ Finished(client[c2])
          /\ AcceptableAlone(client[c1], client[c2])
          /\ AcceptableAlone(client[c2], client[c1])
          /\ Conflicting(client[c1].new, client[c2].new) )
        => \/ Committed(client[c1]) /\ RefusedAsConflict(client[c2])
           \/ Committed(client[c2]) /\ RefusedAsConflict(client[c1])

\* the committed rows of the taxi that overlap the window of the form
CommittedTaxiConflicts(cl) ==
    {r \in shifts : /\ r.taxi_id = cl.taxi_id
                    /\ r.id # cl.currentShift.id
                    /\ IntervalsOverlap(r, cl)}

\* C4: a pre-flight probe answers from the rows committed at the moment it
\* runs and from nothing else, so two bookings of one taxi with overlapping
\* windows can both be told "no conflict" before either write is committed
\* (C4_Witness); a passed pre-flight is no reservation.
C4_PreflightReadsCommittedRows ==
    [][\A c \in Clients :
          /\ (client[c].pc = "filled" /\ client'[c].pc = "taxiProbed")
                => (client'[c].taxiAvailable <=> CommittedTaxiConflicts(client[c]) = {})
          /\ ( /\ client[c].page = "admin"
               /\ client[c].pc = "filled"
               /\ client'[c].pc # "filled"
               /\ DurationStepPasses(client[c]) )
                => (client'[c].pc = "sent" <=> CommittedTaxiConflicts(client[c]) = {})
      ]_vars

\* a driver's probes and an admin's conflict query, for one taxi and
\* overlapping windows, have both found no conflict and nothing is committed
C4_Witness ==
    \E c1 \in Clients : \E c2 \in Clients \ {c1} :
        /\ client[c1].page = "driver"
        /\ client[c1].pc = "probed"
        /\ client[c1].taxiAvailable
        /\ client[c1].driverAvailable
        /\ client[c2].page = "admin"
        /\ client[c2].pc = "sent"
        /\ ~IsUpdate(client[c2])
        /\ client[c1].taxi_id = client[c2].taxi_id
        /\ IntervalsOverlap(client[c1], client[c2])
        /\ shifts = {}

\* no committed row other than the row's own earlier version conflicts with it
OnlySelfOverlaps(rows, row) ==
    \A r \in rows : ~Conflicting(r, row)

\* the windows the pickers of a session can produce
UiWindows == {NormalizeInterval(0, sc, ec) : sc \in UiClocks, ec \in UiClocks}

\* C10: when shift S is edited and S's id is the excluded id, S is not counted
\* as a conflict: if no other committed shift conflicts with the edited row,
\* the dialog's pre-flight reports no conflict, the trigger raises no
\* conflict, and the availability probes called with S's id answer TRUE.
C10_EditExcludesItself ==
    /\ [](\A S \in shifts : \A w \in UiWindows : \A d \in Drivers : \A t \in Taxis :
            LET row == [id |-> S.id, driver_id |-> d, taxi_id |-> t,
                        start_time |-> w.start_time, end_time |-> w.end_time]
            IN  OnlySelfOverlaps(shifts, row) =>
                  /\ check_taxi_availability("a1", shifts, t, w.start_time, w.end_time, S.id)
                  /\ check_driver_availability("a1", shifts, d, w.start_time, w.end_time, S.id)
                  /\ AdminConflictQuery("a1", shifts, t, w.start_time, w.end_time, S.id) = {}
                  /\ check_shift_overlap(ShiftsVisible("a1", shifts), row) = "ok")
    /\ [][\A c \in Clients :
            /\ ( /\ IsUpdate(client[c])
                 /\ client[c].pc = "filled"
                 /\ client'[c].pc # "filled"
                 /\ OnlySelfOverlaps(shifts, FormRow(client[c])) )
                  => client'[c].validationError # "conflictError"
            /\ ( /\ IsUpdate(client[c])
                 /\ client[c].pc = "sent"
                 /\ client'[c].pc # "sent"
                 /\ OnlySelfOverlaps(shifts, client[c].new) )
                  => client'[c].result \notin {"TaxiBooked", "DriverBooked"}
         ]_vars

\* an edit that moved a shift to another window overlapping its previous one
\* has passed the pre-flight and is committed
C10_Witness ==
    \E c \in Clients :
        /\ IsUpdate(client[c])
        /\ Committed(client[c])
        /\ client[c].new \in shifts
        /\ IntervalsOverlap(client[c].new, client[c].currentShift)
        /\ client[c].new # client[c].currentShift
        /\ \E r \in shifts : /\ r.id # client[c].new.id
                             /\ r.taxi_id = client[c].new.taxi_id
                             /\ r.driver_id = client[c].new.driver_id

\* the committed shifts of the form's driver, the edited shift aside, that
\* overlap the window of the form
CommittedDriverConflicts(cl) ==
    {r \in shifts : /\ r.driver_id = cl.driver_id
                    /\ r.id # cl.currentShift.id
                    /\ IntervalsOverlap(r, cl)}

\* C13 as claimed: a write is sent neither from the booking page when its
\* finished probes reported a taxi or a driver conflict, nor from the admin
\* dialog when a committed shift conflicts with the form on the taxi or on the
\* driver.
C13_ConflictBlocksWrite ==
    [][\A c \in Clients :
          (client[c].pc # "sent" /\ client'[c].pc = "sent") =>
              /\ (client[c].page = "driver" /\ client[c].pc = "probed")
                    => (client[c].taxiAvailable /\ client[c].driverAvailable)
              /\ client[c].page = "admin"
                    => /\ CommittedTaxiConflicts(client[c]) = {}
                       /\ CommittedDriverConflicts(client[c]) = {}
      ]_vars

\* the committed shifts with start < other.end AND end > other.start against
\* the window w, the shift with id exclude aside (0: none aside)
OverlappedBy(w, exclude) ==
    {r \in shifts : /\ r.id # exclude
                    /\ w.start_time < r.end_time
                    /\ w.end_time > r.start_time}

\* a session's availability probe returns in this step
ProbeReturns(c) ==
    \/ client[c].pc = "filled" /\ client'[c].pc = "taxiProbed"
    \/ client[c].pc = "taxiProbed" /\ client'[c].pc = "probed"

ValidatedUncommitted(cl) == cl.pc \in {"sent", "written", "failed", "invalid"}

SameCandidate(cl1, cl2) ==
    /\ cl1.page = cl2.page
    /\ cl1.currentShift = cl2.currentShift
    /\ cl1.driver_id = cl2.driver_id
    /\ cl1.taxi_id = cl2.taxi_id
    /\ cl1.start_time = cl2.start_time
    /\ cl1.end_time = cl2.end_time

\* C20 as claimed: when a session validates a candidate that the other
\* session has validated before, and nothing has been committed in between,
\* the verdict is the same both times, whether or not the conflict probes of
\* either session have finished.
C20_ValidationRepeatable ==
    [][\A c1 \in Clients : \A c2 \in Clients \ {c1} :
          ( /\ client[c1].pc \in {"filled", "taxiProbed", "probed"}
            /\ client'[c1].pc \in {"sent", "invalid"}
            /\ ValidatedUncommitted(client[c2])
            /\ SameCandidate(client[c1], client[c2]) )
          => (client'[c1].pc = "invalid" <=> client[c2].pc = "invalid")
      ]_vars

\* C21: when the database refuses the write a session has sent, the session
\* ends with the database's error as its result, the table is as it was, the
\* row of a refused insert is never among the committed rows, and the session
\* sends nothing more: it stays as it is.
C21_RejectedWriteSurfaced ==
    /\ [](\A c \in Clients :
            (client[c].pc = "failed" /\ ~IsUpdate(client[c]))
                => \A r \in shifts : r.id # client[c].new.id)
    /\ [][\A c \in Clients :
            /\ ( /\ client[c].pc = "sent"
                 /\ client'[c].pc # "sent"
                 /\ WriteVerdict(client[c].user, shifts, client[c].new) # "ok"
                 /\ client'[c].result # "NoRow" )
                  => /\ client'[c].pc = "failed"
                     /\ client'[c].result = WriteVerdict(client[c].user, shifts, client[c].new)
                     /\ shifts' = shifts
            /\ client[c].pc = "failed" => client'[c] = client[c]
         ]_vars

\* an admin's new shift passed the dialog's conflict query, was then refused
\* by the trigger with the taxi error, and is not in the table
C21_Witness ==
    \E c \in Clients :
        /\ client[c].page = "admin"
        /\ ~IsUpdate(client[c])
        /\ client[c].pc = "failed"
        /\ client[c].result = "TaxiBooked"
        /\ client[c].validationError = ""
        /\ \A r \in shifts : r.id # client[c].new.id

\* C26 as claimed: when validateShift of the admin dialog or of the booking
\* page lets a candidate through (the write is sent), the commit-time guard
\* evaluated on the committed rows of that very moment accepts the candidate.
C26_PreflightAtLeastAsStrict ==
    [][\A c \in Clients :
          (client[c].pc # "sent" /\ client'[c].pc = "sent") =>
              WriteVerdict(client'[c].user, shifts, client'[c].new) = "ok"
      ]_vars

---------------------------------------------------------------------------
(* SpecBooking: the driver booking page submits one shift per selected     *)
(* date in a single INSERT statement; the submissions run one at a time.   *)

\* the times of day the booking form offers here
BookClocks == {0, SlotMinutes, 2 * SlotMinutes}

\* ids for the rows of the bookings
BookingIds == 1..(MaxShifts + MaxDate)

\* DEFAULT uuid_generate_v4() for the rows of a multi-row insert
NewId(rows) ==
    CHOOSE i \in BookingIds :
        /\ \A r \in rows : r.id # i
        /\ \A j \in BookingIds : (\A r \in rows : r.id # j) => i <= j

\* datesToBook: the selected dates, here in calendar order
DatesToBook(ds) ==
    SelectSeq([i \in 1..(MaxDate + 1) |-> i - 1], LAMBDA d : d \in ds)

\* handleSubmit's loop: one row per date, same driver, taxi and times of day
ShiftsToInsert(uid, taxi, startClock, endClock, ds) ==
    [i \in 1..Len(DatesToBook(ds)) |->
        LET w == NormalizeInterval(DatesToBook(ds)[i], startClock, endClock)
        IN  [driver_id |-> uid, taxi_id |-> taxi,
             start_time |-> w.start_time, end_time |-> w.end_time]]

\* the rows of one INSERT statement are processed in order: trigger, policy
\* and constraints for each row, the trigger seeing the rows the statement has
\* inserted so far; the first error stops the statement
RECURSIVE InsertRows(_, _, _)
InsertRows(uid, rows, cs) ==
    IF cs = <<>> THEN [rows |-> rows, result |-> "ok"]
    ELSE LET new == Row(NewId(rows), Head(cs))
             v == WriteVerdict(uid, rows, new)
         IN  IF v # "ok" THEN [rows |-> rows, result |-> v]
             ELSE InsertRows(uid, rows \cup {new}, Tail(cs))

\* a statement that keeps the rows inserted before its error
InsertManyPartial(uid, rows, cs) ==
    InsertRows(uid, rows, cs)

\* supabase.from('shifts').insert(shifts): an error rolls the statement back
InsertManyEffect(uid, rows, cs) ==
    LET e == InsertRows(uid, rows, cs)
    IN  [rows |-> IF e.result = "ok" THEN e.rows ELSE rows, result |-> e.result]

\* the dates checkConflicts lists in `conflicts`: those with the taxi taken
ConflictDates(uid, rows, taxi, startClock, endClock, ds) ==
    {d \in ds :
        LET w == NormalizeInterval(d, startClock, endClock)
        IN  ~check_taxi_availability(uid, rows, taxi, w.start_time, w.end_time, 0)}

\* validateShift of the booking page; probed tells whether checkConflicts has
\* filled `conflicts` (it is empty before)
BookingValid(uid, rows, taxi, startClock, endClock, ds, probed) ==
    /\ DurationStepPasses(NormalizeInterval(0, startClock, endClock))
    /\ probed => ConflictDates(uid, rows, taxi, startClock, endClock, ds) = {}

\* handleSubmit: validateShift, then the insert of all rows
SubmitEffect(uid, rows, taxi, startClock, endClock, ds, probed) ==
    IF BookingValid(uid, rows, taxi, startClock, endClock, ds, probed)
    THEN InsertManyEffect(uid, rows, ShiftsToInsert(uid, taxi, startClock, endClock, ds))
    ELSE [rows |-> rows, result |-> "invalid"]

SubmitBooking(uid, taxi, startClock, endClock, ds, probed) ==
    /\ Cardinality(shifts) < MaxShifts
    /\ ds # {}
    /\ shifts' = SubmitEffect(uid, shifts, taxi, startClock, endClock, ds, probed).rows
    /\ UNCHANGED <<calc, client, now, db, query, booking, auth>>

NextBooking ==
    \E uid \in Drivers, taxi \in Taxis, sc \in BookClocks, ec \in BookClocks,
       ds \in SUBSET Dates, probed \in BOOLEAN :
          SubmitBooking(uid, taxi, sc, ec, ds, probed)

SpecBooking == Init /\ [][NextBooking]_vars

\* C14: when a booking of several dates is sent in one insert and at least one
\* of its rows conflicts with a committed shift, the insert is refused and the
\* table afterwards is the table before: none of the rows is added.
C14_NoPartialCommit ==
    \A uid \in Drivers : \A taxi \in Taxis : \A sc \in BookClocks : \A ec \in BookClocks :
      \A ds \in SUBSET Dates : \A probed \in BOOLEAN :
        LET cs == ShiftsToInsert(uid, taxi, sc, ec, ds)
            e == SubmitEffect(uid, shifts, taxi, sc, ec, ds, probed)
        IN  ( /\ Cardinality(shifts) < MaxShifts
              /\ \E i \in 1..Len(cs) :
                    TaxiConflicts(shifts, 0, cs[i]) \cup DriverConflicts(shifts, 0, cs[i]) # {} )
            => (e.result # "ok" /\ e.rows = shifts)

\* a booking of two dates reaches the database with its first row free and
\* its second row in conflict with a committed shift, and is refused
C14_Witness ==
    /\ Cardinality(shifts) < MaxShifts
    /\ \E uid \in Drivers : \E taxi \in Taxis : \E sc \in BookClocks : \E ec \in BookClocks :
         \E ds \in SUBSET Dates :
           LET cs == ShiftsToInsert(uid, taxi, sc, ec, ds)
           IN  /\ Len(cs) > 1
               /\ WriteVerdict(uid, shifts, Row(NewId(shifts), cs[1])) = "ok"
               /\ TaxiConflicts(shifts, 0, cs[2]) \cup DriverConflicts(shifts, 0, cs[2]) # {}
               /\ SubmitEffect(uid, shifts, taxi, sc, ec, ds, FALSE).result
                     \in {"TaxiBooked", "DriverBooked"}
               /\ SubmitEffect(uid, shifts, taxi, sc, ec, ds, FALSE).rows = shifts

---------------------------------------------------------------------------
(* SpecClock: the table while time passes.  Shifts are inserted, edited    *)
(* from the admin shift page (edit dialog: the UPDATE statement) and       *)
(* deleted from the admin shift page and the drivers' shift lists, one     *)
(* statement at a time.                                                    *)

\* time passes, half a slot at a time
Tick ==
    /\ now < MaxSlot * SlotMinutes
    /\ now' = now + SlotMinutes \div 2
    /\ UNCHANGED <<shifts, calc, client, db, query, booking, auth>>

\* date-fns isFuture(date): date > Date.now()
isFuture(t) == t > now

\* date-fns isToday(date): the same calendar day as now
isToday(t) == t \div MinutesPerDay = now \div MinutesPerDay

\* admin shift page: the edit button of a listed shift opens the dialog
\* (handleOpenDialog(shift)); the admin sets driver, taxi and times and saves
\* (handleSaveShift: validateShift, then the update)
AdminSaveEdit(uid, shift, driver, taxi, startClock, endClock) ==
    /\ is_admin(uid)
    /\ shift \in ShiftsVisible(uid, shifts)
    /\ LET w == NormalizeInterval(shift.start_time \div MinutesPerDay, startClock, endClock)
           c == [driver_id |-> driver, taxi_id |-> taxi,
                 start_time |-> w.start_time, end_time |-> w.end_time]
       IN  /\ DurationStepPasses(w)
           /\ AdminConflictQuery(uid, shifts, taxi, w.start_time, w.end_time, shift.id) = {}
           /\ shifts' = UpdateEffect(uid, shifts, shift.id, c).rows
    /\ UNCHANGED <<calc, client, now, db, query, booking, auth>>

\* admin shift page: the delete button of a listed shift, confirmed
AdminDeleteShift(uid, shift) ==
    /\ is_admin(uid)
    /\ shift \in ShiftsVisible(uid, shifts)
    /\ shifts' = DeleteEffect(uid, shifts, shift.id).rows
    /\ UNCHANGED <<calc, client, now, db, query, booking, auth>>

\* driver shift list: the delete button is rendered with the edit button,
\* {canEdit && ...}, canEdit = isFuture(parseISO(shift.start_time)); the list
\* holds the driver's own shifts
DriverListDelete(uid, shift) ==
    /\ ~is_admin(uid)
    /\ shift \in {r \in ShiftsVisible(uid, shifts) : r.driver_id = uid}
    /\ isFuture(shift.start_time)
    /\ shifts' = DeleteEffect(uid, shifts, shift.id).rows
    /\ UNCHANGED <<calc, client, now, db, query, booking, auth>>

\* driver shifts page: the delete button of an entry of upcomingShifts
\* (isFuture(start) || isToday(start)) among the driver's own shifts
DriverPageDelete(uid, shift) ==
    /\ ~is_admin(uid)
    /\ shift \in {r \in ShiftsVisible(uid, shifts) : r.driver_id = uid}
    /\ isFuture(shift.start_time) \/ isToday(shift.start_time)
    /\ shifts' = DeleteEffect(uid, shifts, shift.id).rows
    /\ UNCHANGED <<calc, client, now, db, query, booking, auth>>

NextClock ==
    \/ Tick
    \/ \E uid \in Profiles, c \in Candidates :
          Cardinality(shifts) < MaxClockShifts /\ InsertShift(uid, c)
    \/ \E uid \in Admins, shift \in shifts, driver \in Drivers, taxi \in Taxis,
          sc \in Instants, ec \in Instants :
              AdminSaveEdit(uid, shift, driver, taxi, sc, ec)
    \/ \E uid \in Admins, shift \in shifts : AdminDeleteShift(uid, shift)
    \/ \E uid \in Drivers, shift \in shifts : DriverListDelete(uid, shift)
    \/ \E uid \in Drivers, shift \in shifts : DriverPageDelete(uid, shift)

SpecClock == Init /\ [][NextClock]_vars

\* C15 as claimed: no step changes the driver, the taxi or the window of a
\* committed shift whose start_time is not strictly after the time of the step.
C15_EditOnlyBeforeStart ==
    [][\A r \in shifts :
          ~(r.start_time > now) =>
              \A r2 \in shifts' : r2.id = r.id => r2 = r
      ]_vars

\* C16: at any time, for an upcoming, an ongoing or a completed shift S, a
\* delete requested by S's driver or by an admin is answered "ok" and leaves
\* the table without S and otherwise as it was; a delete requested by another
\* driver leaves the table as it was.
C16_DeleteAnyTime ==
    \A S \in shifts : \A uid \in Profiles :
        LET e == DeleteEffect(uid, shifts, S.id)
        IN  IF uid = S.driver_id \/ is_admin(uid)
            THEN e.result = "ok" /\ e.rows = shifts \ {S} /\ S \notin e.rows
            ELSE e.rows = shifts

\* a shift that has ended is in the table, and its driver's delete takes it out
C16_Witness ==
    \E S \in shifts :
        /\ S.end_time < now
        /\ DeleteEffect(S.driver_id, shifts, S.id).result = "ok"
        /\ DeleteEffect(S.driver_id, shifts, S.id).rows = shifts \ {S}

---------------------------------------------------------------------------
(* SpecAccounts: drivers, their auth users and taxis are deleted while     *)
(* shifts are booked.  The rows that refer to a deleted row go with it     *)
(* (ON DELETE CASCADE on profiles.id, shifts.driver_id, shifts.taxi_id).   *)

\* profiles.is_admin = TRUE in the row of uid, as the policies and delete_user read it
IsAdminProfile(d, uid) == uid \in d.profiles /\ is_admin(uid)

\* the shifts left in place when the referenced rows are kept
NoCascade(rows, d) == rows

\* ON DELETE CASCADE of shifts.driver_id and shifts.taxi_id
CascadeShifts(rows, d) ==
    {r \in rows : r.driver_id \in d.profiles /\ r.taxi_id \in d.taxis}

\* DELETE FROM auth.users WHERE id = ..., cascading to profiles and to shifts
DeleteAuthUser(rows, d, id) ==
    LET d2 == [d EXCEPT !.users = @ \ {id}, !.profiles = @ \ {id}]
    IN  [rows |-> CascadeShifts(rows, d2), db |-> d2, result |-> "ok"]

\* supabase.from('profiles').delete().eq('id', ...) under "Only admins can
\* delete profiles": a caller who is no admin deletes no row, without an error
DeleteProfileRow(uid, rows, d, id) ==
    IF IsAdminProfile(d, uid)
    THEN LET d2 == [d EXCEPT !.profiles = @ \ {id}]
         IN  [rows |-> CascadeShifts(rows, d2), db |-> d2, result |-> "ok"]
    ELSE [rows |-> rows, db |-> d, result |-> "ok"]

\* RPC delete_user (SECURITY DEFINER)
delete_user(uid, rows, d, user_id) ==
    IF ~IsAdminProfile(d, uid)
    THEN [rows |-> rows, db |-> d, result |-> "Only admins can delete users"]
    ELSE IF IsAdminProfile(d, user_id)
    THEN [rows |-> rows, db |-> d, result |-> "Cannot delete admin users"]
    ELSE DeleteAuthUser(rows, d, user_id)

\* driverService.deleteDriver; deleteError tells whether the direct delete
\* of the profile came back with an error (the RPC is the fallback)
deleteDriver(uid, rows, d, driverId, deleteError) ==
    IF driverId \notin d.profiles
    THEN [rows |-> rows, db |-> d, result |-> "PGRST116"]
    ELSE IF is_admin(driverId)
    THEN [rows |-> rows, db |-> d,
          result |-> "Cannot delete admin users through this interface"]
    ELSE IF ~deleteError
    THEN DeleteProfileRow(uid, rows, d, driverId)
    ELSE delete_user(uid, rows, d, driverId)

\* handleDeleteDriver of the admin drivers page; adminApiError tells whether
\* supabase.auth.admin.deleteUser came back with an error (it needs the
\* service-role key), in which case the profile row is deleted directly
handleDeleteDriver(uid, rows, d, driverId, adminApiError) ==
    IF ~adminApiError
    THEN DeleteAuthUser(rows, d, driverId)
    ELSE DeleteProfileRow(uid, rows, d, driverId)

\* handleDeleteTaxi of the admin taxis page, under "Only admins can delete taxis"
handleDeleteTaxi(uid, rows, d, taxiId) ==
    IF IsAdminProfile(d, uid)
    THEN LET d2 == [d EXCEPT !.taxis = @ \ {taxiId}]
         IN  [rows |-> CascadeShifts(rows, d2), db |-> d2, result |-> "ok"]
    ELSE [rows |-> rows, db |-> d, result |-> "ok"]

\* INSERT INTO shifts with the foreign keys of driver_id and taxi_id
InsertReferencing(uid, rows, d, c) ==
    LET e == InsertEffect(uid, rows, c)
    IN  IF e.result = "ok" /\ (c.driver_id \notin d.profiles \/ c.taxi_id \notin d.taxis)
        THEN [rows |-> rows, result |-> "ForeignKeyViolation"]
        ELSE e

\* the signed-in users that still have their profile
SignedIn == db.users \cap db.profiles

BookShift(uid, c) ==
    /\ uid \in SignedIn
    /\ Cardinality(shifts) < MaxShifts
    /\ shifts' = InsertReferencing(uid, shifts, db, c).rows
    /\ UNCHANGED <<calc, client, now, db, query, booking, auth>>

DeleteUserRpc(uid, user_id) ==
    /\ uid \in SignedIn
    /\ shifts' = delete_user(uid, shifts, db, user_id).rows
    /\ db' = delete_user(uid, shifts, db, user_id).db
    /\ UNCHANGED <<calc, client, now, query, booking, auth>>

DeleteDriverService(uid, driverId, deleteError) ==
    /\ uid \in SignedIn
    /\ shifts' = deleteDriver(uid, shifts, db, driverId, deleteError).rows
    /\ db' = deleteDriver(uid, shifts, db, driverId, deleteError).db
    /\ UNCHANGED <<calc, client, now, query, booking, auth>>

\* the page lists every row of profiles, and each row has its delete button
DeleteDriverPage(uid, driverId, adminApiError) ==
    /\ uid \in SignedIn
    /\ driverId \in db.profiles
    /\ shifts' = handleDeleteDriver(uid, shifts, db, driverId, adminApiError).rows
    /\ db' = handleDeleteDriver(uid, shifts, db, driverId, adminApiError).db
    /\ UNCHANGED <<calc, client, now, query, booking, auth>>

DeleteTaxiPage(uid, taxiId) ==
    /\ uid \in SignedIn
    /\ taxiId \in db.taxis
    /\ shifts' = handleDeleteTaxi(uid, shifts, db, taxiId).rows
    /\ db' = handleDeleteTaxi(uid, shifts, db, taxiId).db
    /\ UNCHANGED <<calc, client, now, query, booking, auth>>

NextAccounts ==
    \/ \E uid \in Profiles, c \in Candidates : BookShift(uid, c)
    \/ \E uid, user_id \in Profiles : DeleteUserRpc(uid, user_id)
    \/ \E uid, driverId \in Profiles, deleteError \in BOOLEAN :
            DeleteDriverService(uid, driverId, deleteError)
    \/ \E uid, driverId \in Profiles, adminApiError \in BOOLEAN :
            DeleteDriverPage(uid, driverId, adminApiError)
    \/ \E uid \in Profiles, taxiId \in Taxis : DeleteTaxiPage(uid, taxiId)

SpecAccounts == Init /\ [][NextAccounts]_vars

\* C23 as claimed: delete_user called by a caller who is no admin answers
\* 'Only admins can delete users', called for a target with is_admin = TRUE
\* it answers 'Cannot delete admin users', both without changing profiles,
\* auth users or shifts; and no step of the driver-deletion operations takes
\* a profile with is_admin = TRUE out of table profiles.
C23_AdminProfilesKept ==
    /\ [](\A uid \in Profiles, user_id \in Profiles :
            LET e == delete_user(uid, shifts, db, user_id)
            IN  /\ ~IsAdminProfile(db, uid) =>
                    /\ e.result = "Only admins can delete users"
                    /\ e.rows = shifts /\ e.db = db
                /\ (IsAdminProfile(db, uid) /\ IsAdminProfile(db, user_id)) =>
                    /\ e.result = "Cannot delete admin users"
                    /\ e.rows = shifts /\ e.db = db)
    /\ [][\A p \in db.profiles : is_admin(p) => p \in db'.profiles]_vars

\* C25 as claimed: the admin's delete of a taxi that has shifts is refused
\* with a foreign-key violation, and the taxi and its shifts stay.
C25_TaxiWithShiftsKept ==
    \A uid \in SignedIn, taxiId \in db.taxis :
        (IsAdminProfile(db, uid) /\ \E r \in shifts : r.taxi_id = taxiId) =>
            LET e == handleDeleteTaxi(uid, shifts, db, taxiId)
            IN  /\ e.result = "ForeignKeyViolation"
                /\ e.db = db
                /\ e.rows = shifts

\* C28: every committed shift refers to a profile and a taxi that exist; a
\* step that deletes a profile or a taxi leaves no shift of it behind; and no
\* two shifts of one taxi or of one driver overlap.
C28_NoDanglingShift ==
    /\ [](/\ \A r \in shifts : r.driver_id \in db.profiles /\ r.taxi_id \in db.taxis
          /\ \A r1, r2 \in shifts :
                (r1 # r2 /\ (r1.taxi_id = r2.taxi_id \/ r1.driver_id = r2.driver_id))
                    => ~IntervalsOverlap(r1, r2))
    /\ [][/\ \A p \in db.profiles \ db'.profiles :
                \A r \in shifts' : r.driver_id # p
          /\ \A t \in db.taxis \ db'.taxis :
                \A r \in shifts' : r.taxi_id # t
          /\ shifts' \subseteq shifts \/ db' = db]_vars

\* driver d1 is booked twice, d2 once on the other taxi; deleting d1's profile
\* takes exactly d1's two shifts along
C28_Witness ==
    /\ Cardinality({r \in shifts : r.driver_id = "d1"}) = 2
    /\ LET e == deleteDriver("a1", shifts, db, "d1", FALSE)
       IN  /\ e.result = "ok"
           /\ "d1" \notin e.db.profiles
           /\ e.rows = {r \in shifts : r.driver_id # "d1"}

---------------------------------------------------------------------------
(* SpecQuery: safeQuery runs a query through withSessionRefresh, one loop  *)
(* iteration per step; the query and the session refresh resolve with any  *)
(* of their outcomes.                                                      *)

QueryResults == {NoError} \cup QueryErrors

\* supabase.auth.refreshSession(): a session, an error, or neither
RefreshOutcomes == {"session", "refreshError", "noSession"}

\* the codes after which safeQuery does not retry
NoRetryCodes == {"PGRST116", "23505", "23503"}

\* a wrapper that repeats the query after an auth error whatever the refresh gave
WithSessionRefreshAlwaysRetry(first, refresh, second) ==
    IF first.auth THEN [error |-> second, calls |-> 2]
    ELSE [error |-> first, calls |-> 1]

\* withSessionRefresh(queryFn): first and second are what the first and the
\* repeated call of queryFn resolve with; calls counts the calls made
withSessionRefresh(first, refresh, second) ==
    IF first.auth
    THEN IF refresh = "refreshError" THEN [error |-> first, calls |-> 1]
         ELSE IF refresh = "session" THEN [error |-> second, calls |-> 2]
         ELSE [error |-> first, calls |-> 1]
    ELSE [error |-> first, calls |-> 1]

\* options?.retries ?? 1
RetriesOption(options) == IF options.given THEN options.retries ELSE 1

\* safeQuery is called: maxRetries is set, and with maxRetries = 0 the loop
\* body never runs
CallSafeQuery(options) ==
    /\ query.pc \in {"idle", "returned"}
    /\ query' = [IdleQuery EXCEPT
                    !.maxRetries = RetriesOption(options),
                    !.pc = IF 0 < RetriesOption(options) THEN "loop" ELSE "returned"]
    /\ UNCHANGED <<shifts, calc, client, now, db, booking, auth>>

\* one iteration of the for loop, up to the return, the break or the end of
\* the wait before the next iteration
LoopIteration(first, refresh, second) ==
    /\ query.pc = "loop"
    /\ query.i < query.maxRetries
    /\ LET r == withSessionRefresh(first, refresh, second)
           q == [query EXCEPT !.attempts = @ + 1, !.calls = r.calls,
                              !.first = first, !.refresh = refresh]
       IN  query' =
              IF r.error = NoError
              THEN [q EXCEPT !.pc = "returned", !.someOk = TRUE,
                             !.error = NoError, !.success = TRUE]
              ELSE IF r.error.code \in NoRetryCodes \/ query.i + 1 >= query.maxRetries
              THEN [q EXCEPT !.pc = "returned", !.lastError = r.error,
                             !.error = r.error, !.success = FALSE]
              ELSE [q EXCEPT !.lastError = r.error, !.i = @ + 1]
    /\ UNCHANGED <<shifts, calc, client, now, db, booking, auth>>

Iterate ==
    \E first \in QueryResults, refresh \in RefreshOutcomes, second \in QueryResults :
        LoopIteration(first, refresh, second)

NextQuery ==
    \/ \E options \in [given : BOOLEAN, retries : 0..MaxRetries] : CallSafeQuery(options)
    \/ Iterate

\* every awaited promise resolves
SpecQuery == Init /\ [][NextQuery]_vars /\ WF_vars(Iterate)

\* C24: a call of safeQuery returns, after at most maxRetries attempts (one
\* when no retries are given); an attempt calls queryFn once, or twice when
\* the first call gave an auth error and the session refresh gave a session;
\* the attempt that gives no error or one of the codes PGRST116, 23505, 23503
\* is the last one; success is true exactly when an attempt gave no error,
\* and otherwise the error returned is the last attempt's.
C24_SafeQueryTerminates ==
    /\ [](/\ query.attempts <= query.maxRetries
          /\ query.calls <= 2
          /\ query.calls = 2 => (query.first.auth /\ query.refresh = "session")
          /\ query.pc = "returned" =>
                /\ query.success <=> query.someOk
                /\ ~query.success => query.error = query.lastError)
    /\ [][/\ \A options \in [given : BOOLEAN, retries : 0..MaxRetries] :
                CallSafeQuery(options) =>
                    query'.maxRetries = IF options.given THEN options.retries ELSE 1
          /\ \A first \in QueryResults, refresh \in RefreshOutcomes,
                second \in QueryResults :
                LoopIteration(first, refresh, second) =>
                    LET e == withSessionRefresh(first, refresh, second).error
                    IN  /\ query'.attempts = query.attempts + 1
                        /\ (e = NoError \/ e.code \in NoRetryCodes)
                              => query'.pc = "returned"
                        /\ e # NoError => query'.lastError = e
                        /\ query'.success <=> e = NoError
      ]_vars
    /\ [](query.pc = "loop" => <>(query.pc = "returned"))

\* a call with retries = 2 whose first attempt called queryFn twice (auth
\* error, session refreshed), failed with a retryable error, and whose second
\* attempt failed as well: it returned the second error
C24_Witness ==
    /\ query.pc = "returned"
    /\ query.maxRetries = 2
    /\ query.attempts = 2
    /\ query.calls = 2
    /\ ~query.success
    /\ query.error.code = "other"

---------------------------------------------------------------------------
(* SpecProbe: a driver changes the inputs of the booking page while        *)
(* earlier checkConflicts calls are still awaited; the table does not      *)
(* change.  conflicts is modelled by conflicts.length > 0 (one date).      *)

\* the inputs a checkConflicts call read when the effect started it
ProbeInputs(b) == [selectedTaxi |-> b.selectedTaxi,
                   startTime |-> b.startTime, endTime |-> b.endTime]

\* conflictDates of checkConflicts for inputs in, non-empty or not
TaxiConflictFound(uid, rows, in) ==
    LET w == NormalizeInterval(0, in.startTime, in.endTime)
    IN  ~check_taxi_availability(uid, rows, in.selectedTaxi,
                                 w.start_time, w.end_time, 0)

\* the driver opens /driver/book-shift
OpenBookShift(uid) ==
    /\ booking.user = "none"
    /\ ~is_admin(uid)
    /\ booking' = [ClosedBooking EXCEPT !.user = uid]
    /\ UNCHANGED <<shifts, calc, client, now, db, query, auth>>

\* the driver completes the form, or changes the taxi or one of the times of
\* a complete form; the effect on the inputs then calls checkConflicts
SelectInputs(taxi, startClock, endClock) ==
    /\ booking.user # "none"
    /\ Cardinality(booking.calls) < MaxInFlight
    /\ LET b == [booking EXCEPT !.selectedTaxi = taxi,
                                !.startTime = startClock, !.endTime = endClock]
       IN  /\ ProbeInputs(b) # ProbeInputs(booking)
           /\ booking.selectedTaxi # "none" =>
                 Cardinality({f \in {"selectedTaxi", "startTime", "endTime"} :
                                 b[f] # booking[f]}) = 1
           /\ booking' = [b EXCEPT !.calls = @ \cup {ProbeInputs(b)}]
    /\ UNCHANGED <<shifts, calc, client, now, db, query, auth>>

\* a checkConflicts call gets its answers and reaches setConflicts(conflictDates)
CheckConflictsCompletes(call) ==
    /\ call \in booking.calls
    /\ booking' = [booking EXCEPT
                      !.conflicts = TaxiConflictFound(booking.user, shifts, call),
                      !.calls = @ \ {call}]
    /\ UNCHANGED <<shifts, calc, client, now, db, query, auth>>

NextProbe ==
    \/ \E uid \in Profiles : OpenBookShift(uid)
    \/ \E taxi \in Taxis, sc \in UiClocks, ec \in UiClocks : SelectInputs(taxi, sc, ec)
    \/ \E call \in booking.calls : CheckConflictsCompletes(call)

SpecProbe == InitUI /\ [][NextProbe]_vars

\* C27 as claimed: when no checkConflicts call is awaited any more, conflicts
\* is non-empty exactly when the taxi selected now is taken in the window
\* selected now.
C27_ConflictsReflectInputs ==
    (booking.selectedTaxi # "none" /\ booking.calls = {}) =>
        (booking.conflicts <=>
            TaxiConflictFound(booking.user, shifts, ProbeInputs(booking)))

---------------------------------------------------------------------------
(* SpecAuth: the AuthProvider handles the events of onAuthStateChange and  *)
(* signOut while fetchProfile calls are awaited.                           *)

\* the events that carry a session and start fetchProfile
SessionEvents == {"SIGNED_IN", "TOKEN_REFRESHED", "USER_UPDATED"}

\* fetchProfile calls awaited, over all users
Fetching == auth.fetching["a1"] + auth.fetching["d1"] + auth.fetching["d2"]

\* case 'SIGNED_IN' / 'TOKEN_REFRESHED' / 'USER_UPDATED' with session.user = u,
\* up to the await of fetchProfile
SessionEvent(event, u) ==
    /\ Fetching < MaxInFlight
    /\ event # "SIGNED_IN" => auth.user = u
    /\ auth' = [auth EXCEPT !.session = u, !.user = u,
                            !.fetching[u] = @ + 1]
    /\ UNCHANGED <<shifts, calc, client, now, db, query, booking>>

\* case 'SIGNED_OUT'
SignedOutEvent ==
    /\ auth' = [auth EXCEPT !.session = "none", !.user = "none",
                            !.profile = "none"]
    /\ UNCHANGED <<shifts, calc, client, now, db, query, booking>>

\* signOut() is called, up to the await of supabase.auth.signOut()
SignOutCalled ==
    /\ auth.user # "none"
    /\ ~auth.signingOut
    /\ auth' = [auth EXCEPT !.signingOut = TRUE]
    /\ UNCHANGED <<shifts, calc, client, now, db, query, booking>>

\* supabase.auth.signOut() came back, with or without an error
SignOutResolves(error) ==
    /\ auth.signingOut
    /\ auth' = IF error THEN [auth EXCEPT !.signingOut = FALSE]
               ELSE [auth EXCEPT !.user = "none", !.profile = "none",
                                 !.session = "none", !.signingOut = FALSE]
    /\ UNCHANGED <<shifts, calc, client, now, db, query, booking>>

\* the query of fetchProfile(u) resolves: setProfile(data), or
\* setProfile(null) on an error
FetchProfileResolves(u, error) ==
    /\ auth.fetching[u] > 0
    /\ auth' = [auth EXCEPT !.profile = IF error THEN "none" ELSE u,
                            !.fetching[u] = @ - 1]
    /\ UNCHANGED <<shifts, calc, client, now, db, query, booking>>

NextAuth ==
    \/ \E event \in SessionEvents, u \in Profiles : SessionEvent(event, u)
    \/ SignedOutEvent
    \/ SignOutCalled
    \/ \E error \in BOOLEAN : SignOutResolves(error)
    \/ \E u \in Profiles, error \in BOOLEAN : FetchProfileResolves(u, error)

SpecAuth == Init /\ [][NextAuth]_vars

\* C29 as claimed: profile is never non-null while user is null (after
\* SIGNED_OUT or a successful signOut user, session and profile stay null
\* until the next sign-in, whatever fetchProfile call resolves meanwhile).
C29_NoProfileWithoutUser ==
    auth.user = "none" => (auth.profile = "none" /\ auth.session = "none")

=============================================================================
